---- MODULE Spec2Model ----
(***************************************************************************)
(* Model of upload_to_harpin.py: one invocation of main(), a linear        *)
(* pipeline of HTTP calls against the harpin AI API.  The server, the      *)
(* network, the file system and the process environment are the            *)
(* nondeterministic environment: every request picks its outcome with \E.  *)
(***************************************************************************)
EXTENDS Integers, Sequences, FiniteSets, TLC

\* ------------------------------------------------------------------------
\* Configuration and constants (upload_to_harpin.py lines 52-63)
\* ------------------------------------------------------------------------
MAX_CONCURRENT_UPLOADS == 3
MAX_FILE_SIZE_GB == 5
RETRY_ATTEMPTS == 3
RETRY_DELAY_SECONDS == 10
POLL_INTERVAL_SECONDS == 5
EXIT_SUCCESS == 0
EXIT_USER_ERROR == 1
EXIT_SYSTEM_ERROR == 2

\* ------------------------------------------------------------------------
\* Bounds of the model
\* ------------------------------------------------------------------------
\* longest upload list the server answers with
MaxUploads == 3
\* most 200 answers with a status that is neither the target nor 'failed'
\* in one poll_status wait
MaxPolls == 3
\* longest upload list the source holds before the two invocations start
MaxExisting == 3
\* most base-1024 digits of a byte count given to format_file_size
MaxDigits == 5

\* exitCode while the process is still running: a value that is no exit code
RUNNING == EXIT_SUCCESS - 1

\* Python's None, as returned by dict.get on a missing key
None == "<None>"

\* dict.get(k, default)
Get(d, k, default) == IF k \in DOMAIN d THEN d[k] ELSE default

\* truthiness of a str-or-None value ("if access_token", "not upload_id")
Truthy(v) == v # None /\ v # ""

\* ------------------------------------------------------------------------
\* Environment: process environment, file system, installed library
\* ------------------------------------------------------------------------
\* values of an environment variable; "<unset>" stands for an absent variable
EnvValues == {"<unset>", "", "  ", "secret"}

\* mutant of EnvGetStripped: the value is read without .strip()
EnvGet_unstripped(v) == IF v \in {"<unset>", ""} THEN "" ELSE v

\* os.environ.get(name, '').strip()
EnvGetStripped(v) == IF v \in {"<unset>", "", "  "} THEN "" ELSE v

\* a file size in bytes, held as gib * 2^30 + rem with 0 <= rem < 2^30
\* (5 * 1024^3 does not fit TLC's 32-bit integers)
Size(g, r) == [gib |-> g, rem |-> r]
\* mutant of SizeGreater: ">=" for ">"
SizeGreaterOrEqual(a, b) == a.gib > b.gib \/ (a.gib = b.gib /\ a.rem >= b.rem)

\* a > b
SizeGreater(a, b) == a.gib > b.gib \/ (a.gib = b.gib /\ a.rem > b.rem)
MAX_FILE_SIZE_BYTES == Size(MAX_FILE_SIZE_GB, 0)

FileSizes == {Size(0, 0), Size(0, 10485760), Size(5, 0), Size(5, 1), Size(6, 0)}
Files ==
    {[exists |-> FALSE, is_file |-> FALSE, readable |-> FALSE, size |-> Size(0, 0)],
     [exists |-> TRUE, is_file |-> FALSE, readable |-> TRUE, size |-> Size(0, 0)],
     [exists |-> TRUE, is_file |-> TRUE, readable |-> FALSE, size |-> Size(0, 10485760)]}
    \cup {[exists |-> TRUE, is_file |-> TRUE, readable |-> TRUE, size |-> s] : s \in FileSizes}

\* ------------------------------------------------------------------------
\* Steps of main() and positions inside a step
\* ------------------------------------------------------------------------
Steps == <<"get_access_token", "validate_file", "validate_source",
           "check_concurrent_uploads", "create_upload", "upload_to_s3",
           "poll_analysis", "request_import", "poll_import", "summary">>

StepIndex(s) == CHOOSE i \in 1..Len(Steps) : Steps[i] = s

\* the functions decorated with @retry_on_network_error
Wrapped == {"create_upload", "upload_to_s3", "poll_analysis", "request_import", "poll_import"}
PollSteps == {"poll_analysis", "poll_import"}

target_status(step) == IF step = "poll_analysis" THEN "analysisCompleted" ELSE "importCompleted"

\* ------------------------------------------------------------------------
\* JSON values and HTTP outcomes, as the code tells them apart
\* ------------------------------------------------------------------------
\* a body is tagged with what response.json() makes of it:
\*   "invalid" (json() raises), "null", "number", "string", "list", "dict"
Invalid == [json |-> "invalid"]
JNull == [json |-> "null"]
JNumber == [json |-> "number"]
JString == [json |-> "string"]
JList(items) == [json |-> "list", items |-> items]
JDict(fields) == [json |-> "dict", fields |-> fields]
NoData == [json |-> "none"]

\* a requests call either raises a transport exception (the server may or may
\* not have processed the request before the connection failed) or returns
Transport(processed) == [kind |-> "transport", processed |-> processed]
Http(status, body) == [kind |-> "http", status |-> status, body |-> body]

\* upload lifecycle statuses (spec section 4.5)
Statuses == {"created", "analysisInProgress", "analysisCompleted", "importRequested",
             "importInProgress", "importCompleted", "failed"}

\* ids and presigned URLs of the n-th upload record this invocation created
UploadIdOf(n) == IF n = 1 THEN "U1" ELSE IF n = 2 THEN "U2" ELSE IF n = 3 THEN "U3" ELSE "U4"
UrlOf(n) == IF n = 1 THEN "s3://U1" ELSE IF n = 2 THEN "s3://U2" ELSE IF n = 3 THEN "s3://U3" ELSE "s3://U4"

SeqsUpTo(S, n) == UNION {[1..k -> S] : k \in 0..n}

VARIABLES
    \* environment, fixed for the run
    HARPIN_CLIENT_ID, HARPIN_REFRESH_TOKEN, file, json_error_is_request_exception,
    \* control: the step main() is in, the position inside it, the exit
    pc, at, exitCode, exitAt, exitReason,
    \* locals of main(), check_concurrent_uploads and poll_status; uploads (the
    \* parsed list-uploads body, line 326) is held until create_upload starts
    access_token, file_size, uploads, upload_id, presigned_url,
    last_status, analysis_data, final_data, summary,
    \* the retry wrapper's loop, and what it did in the current wrapped call
    attempt, failures, retrySleeps, retrySlept, caught,
    \* observers: the request the last step issued, the steps that returned,
    \* the upload records the server created for this invocation, and of the
    \* current poll_status wait: the 200 answers, the fetches that raised in a
    \* row, the last 200 payload, the 200 answers with the target status and
    \* with 'failed'; the error message surfaced
    req, done, serverUploads, polls, consecFail, lastResp, targetSeen, failedSeen, shown,
    \* the seconds the current poll_status wait has slept between polls
    pollSlept,
    \* the last status fetch logged a "Status: ..." line (line 511)
    status_logged,
    \* the answer to that request
    answer,
    \* a KeyboardInterrupt has been raised in the process
    interrupted,
    \* counters of the run: token requests issued, opens of the local file
    \* that succeeded, storage PUTs issued
    token_requests, file_opens, storage_puts,
    \* two invocations against one source: the source's upload list on the
    \* server, and each invocation's position, the in-progress count its
    \* gate saw and the number of times it queried the list
    srv_uploads, inv,
    \* format_file_size on its own: its argument and what it returned
    fs_size, fs_result

\* the state of the other specifications, which a run of main() leaves alone
raceVars == <<srv_uploads, inv>>
fmtVars == <<fs_size, fs_result>>
auxVars == <<raceVars, fmtVars>>
envVars == <<HARPIN_CLIENT_ID, HARPIN_REFRESH_TOKEN, file, json_error_is_request_exception,
             auxVars>>
ctlVars == <<pc, at, exitCode, exitAt, exitReason, done>>
dataVars == <<access_token, file_size, uploads, upload_id, presigned_url,
              last_status, analysis_data, final_data, summary>>
retryVars == <<attempt, failures, retrySleeps, retrySlept, caught>>
pollObs == <<polls, consecFail, lastResp, targetSeen, failedSeen, pollSlept,
            status_logged>>
obsVars == <<req, answer, serverUploads, pollObs, shown>>
countVars == <<token_requests, file_opens, storage_puts>>
vars == <<envVars, ctlVars, dataVars, retryVars, obsVars, interrupted, countVars>>

NoSummary == [printed |-> FALSE]

\* a request as it goes out: its kind, the bearer token it carries, the
\* upload id or presigned URL it addresses
Req(kind, token, target) == [kind |-> kind, token |-> token, target |-> target]
NoReq == Req("none", None, None)
\* the last step issued no request, or its request got no answer to record
NoAnswer == [kind |-> "none"]

\* the two invocations of the two-invocation specification
Invocations == {"A", "B"}
InvStart == [pc |-> "check", seen |-> 0, checks |-> 0]
RaceAtRest == srv_uploads = <<>> /\ inv = [i \in Invocations |-> InvStart]

\* format_file_size has not been called
NotCalled == [unit |-> "none"]
FormatAtRest == fs_size = <<>> /\ fs_result = NotCalled

\* main() as it starts
InitMain ==
    /\ HARPIN_CLIENT_ID \in EnvValues
    /\ HARPIN_REFRESH_TOKEN \in EnvValues
    /\ file \in Files
    /\ json_error_is_request_exception \in BOOLEAN
    /\ pc = "get_access_token" /\ at = "enter"
    /\ exitCode = RUNNING /\ exitAt = "" /\ exitReason = ""
    /\ access_token = None /\ file_size = Size(0, 0) /\ uploads = NoData
    /\ upload_id = None /\ presigned_url = None
    /\ last_status = None /\ analysis_data = NoData /\ final_data = NoData
    /\ summary = NoSummary
    /\ attempt = 1 /\ failures = 0 /\ retrySleeps = 0 /\ retrySlept = 0 /\ caught = {}
    /\ req = NoReq /\ answer = NoAnswer /\ done = <<>> /\ serverUploads = 0
    /\ polls = 0 /\ consecFail = 0 /\ lastResp = NoData
    /\ targetSeen = 0 /\ failedSeen = 0 /\ pollSlept = 0 /\ status_logged = FALSE /\ shown = None
    /\ interrupted = FALSE
    /\ token_requests = 0 /\ file_opens = 0 /\ storage_puts = 0

Init == InitMain /\ RaceAtRest /\ FormatAtRest

\* ------------------------------------------------------------------------
\* Leaving a step
\* ------------------------------------------------------------------------
\* mutant of Exit: the error is reported but sys.exit is forgotten
Exit_without_stop(code, reason) ==
    /\ pc' = pc /\ at' = at
    /\ exitCode' = code /\ exitAt' = pc /\ exitReason' = reason
    /\ done' = done

\* sys.exit(code): SystemExit is no Exception, so neither the retry wrapper
\* nor main's "except Exception" catches it
Exit(code, reason) ==
    /\ pc' = "exited" /\ at' = "exit"
    /\ exitCode' = code /\ exitAt' = pc /\ exitReason' = reason
    /\ done' = done

\* the step goes on, at another position
Stay(position) ==
    /\ pc' = pc /\ at' = position
    /\ UNCHANGED <<exitCode, exitAt, exitReason, done>>

\* the step returns to main(), which calls the next one
Return(next) ==
    /\ pc' = next /\ at' = "enter"
    /\ done' = Append(done, pc)
    /\ UNCHANGED <<exitCode, exitAt, exitReason>>

\* lines 166-170, 410-414, 560-564: the error details are printed inside
\* "try: ... except:"; a KeyboardInterrupt raised there is caught by the bare
\* except and the function goes on to its sys.exit. `reached` tells whether
\* the branch with that try is taken.
bare_except(reached) == interrupted' \in IF reached THEN BOOLEAN ELSE {interrupted}

\* main's "except Exception" (lines 657-661)
Unexpected == Exit(EXIT_SYSTEM_ERROR, "exception")

\* response.json() raised in a function whose "except RequestException"
\* handler exits with `code`: requests >= 2.27 raises
\* requests.exceptions.JSONDecodeError (a RequestException), older
\* versions a plain ValueError that reaches main's handler
JsonErrorExit(code, reason) ==
    IF json_error_is_request_exception THEN Exit(code, reason) ELSE Unexpected

\* ------------------------------------------------------------------------
\* Step 1: get_access_token (lines 115-175)
\* ------------------------------------------------------------------------
TokenResponses ==
    {Transport(FALSE), Http(401, Invalid), Http(500, Invalid),
     Http(200, Invalid), Http(200, JList(<<>>)),
     Http(200, JDict([accessToken |-> "tokA"])),
     Http(200, JDict([accessToken |-> ""])),
     Http(200, JDict([message |-> "ok"]))}

\* mutant of token_transport_error: the token request is tried again
token_transport_error_retried == Stay("enter")

\* lines 173-175: a RequestException of the token request is fatal at once
token_transport_error == Exit(EXIT_USER_ERROR, "auth")

get_access_token ==
    /\ pc = "get_access_token"
    /\ LET client_id == EnvGetStripped(HARPIN_CLIENT_ID)
           refresh_token == EnvGetStripped(HARPIN_REFRESH_TOKEN)
       IN IF client_id = "" \/ refresh_token = ""
          THEN \* lines 135-140: no request is made
               /\ Exit(EXIT_USER_ERROR, "missing_env")
               /\ req' = NoReq /\ answer' = NoAnswer /\ access_token' = access_token
               /\ bare_except(FALSE)
               /\ token_requests' = token_requests
          ELSE \E r \in TokenResponses :
               /\ req' = Req("token", None, None) /\ answer' = r
               /\ token_requests' = token_requests + 1
               /\ bare_except(r.kind = "http" /\ r.status # 200)
               /\ IF r.kind = "transport"
                  THEN token_transport_error /\ access_token' = access_token
                  ELSE IF r.status # 200
                  THEN Exit(EXIT_USER_ERROR, "auth") /\ access_token' = access_token
                  ELSE IF r.body.json = "invalid"
                  THEN JsonErrorExit(EXIT_USER_ERROR, "auth") /\ access_token' = access_token
                  ELSE IF r.body.json # "dict"
                  THEN Unexpected /\ access_token' = access_token
                  ELSE IF Truthy(Get(r.body.fields, "accessToken", None))
                  THEN Return("validate_file") /\ access_token' = r.body.fields.accessToken
                  ELSE Exit(EXIT_USER_ERROR, "auth") /\ access_token' = access_token
    /\ UNCHANGED <<envVars, file_opens, storage_puts, retryVars, serverUploads, pollObs, shown>>
    /\ UNCHANGED <<file_size, uploads, upload_id, presigned_url,
                   last_status, analysis_data, final_data, summary>>

\* ------------------------------------------------------------------------
\* Step 2: validate_file (lines 181-219)
\* ------------------------------------------------------------------------
validate_file ==
    /\ pc = "validate_file"
    /\ req' = NoReq /\ answer' = NoAnswer
    /\ IF ~file.exists THEN Exit(EXIT_USER_ERROR, "file_not_found") /\ file_size' = file_size
       ELSE IF ~file.is_file THEN Exit(EXIT_USER_ERROR, "not_a_file") /\ file_size' = file_size
       ELSE IF ~file.readable THEN Exit(EXIT_USER_ERROR, "not_readable") /\ file_size' = file_size
       ELSE IF SizeGreater(file.size, MAX_FILE_SIZE_BYTES)
       THEN Exit(EXIT_USER_ERROR, "too_large") /\ file_size' = file_size
       ELSE Return("validate_source") /\ file_size' = file.size
    /\ UNCHANGED <<envVars, countVars, interrupted, retryVars, serverUploads, pollObs, shown>>
    /\ UNCHANGED <<access_token, uploads, upload_id, presigned_url,
                   last_status, analysis_data, final_data, summary>>

\* ------------------------------------------------------------------------
\* Step 3: validate_source (lines 221-299)
\* ------------------------------------------------------------------------
SourceResponses ==
    {Transport(FALSE), Http(404, Invalid), Http(401, Invalid), Http(500, Invalid),
     Http(200, Invalid), Http(200, JList(<<>>)),
     Http(200, JDict([sourceSystem |-> "flatFile"])),
     Http(200, JDict([sourceSystem |-> "salesforce"])),
     Http(200, JDict([name |-> "S1"]))}

\* lines 293-295: a status that is neither 200 nor 404
validate_source_other_status == Exit(EXIT_USER_ERROR, "source_status")

validate_source ==
    /\ pc = "validate_source" /\ at = "enter"
    /\ \E r \in SourceResponses :
       /\ req' = Req("fetch_source", access_token, None) /\ answer' = r
       /\ IF r.kind = "transport" THEN Exit(EXIT_USER_ERROR, "source_network")
          ELSE IF r.status = 200
          THEN IF r.body.json = "invalid" THEN JsonErrorExit(EXIT_USER_ERROR, "source_network")
               ELSE IF r.body.json # "dict" THEN Unexpected
               ELSE IF Get(r.body.fields, "sourceSystem", "unknown") # "flatFile"
               THEN Exit(EXIT_USER_ERROR, "source_type")
               ELSE Return("check_concurrent_uploads")
          ELSE IF r.status = 404 THEN Stay("list_sources")
          ELSE validate_source_other_status
    /\ UNCHANGED <<envVars, countVars, interrupted, dataVars, retryVars, serverUploads, pollObs, shown>>

\* the best-effort listing after a 404 (lines 262-292)
SourceItems == {JDict([sourceSystem |-> "flatFile"]), JDict([sourceSystem |-> "salesforce"]),
                JString}
SourcesResponses ==
    {Transport(FALSE), Http(500, Invalid), Http(200, Invalid), Http(200, JList(<<>>)),
     Http(200, JDict([total |-> 0])),
     Http(200, JDict([content |-> JNull]))}
    \cup {Http(200, JDict([content |-> JList(<<i>>)])) : i \in SourceItems}

list_sources ==
    /\ pc = "validate_source" /\ at = "list_sources"
    /\ \E r \in SourcesResponses :
       /\ req' = Req("list_sources", access_token, None) /\ answer' = r
       /\ IF r.kind = "transport" THEN Exit(EXIT_USER_ERROR, "source_not_found")
          ELSE IF r.status # 200 THEN Exit(EXIT_USER_ERROR, "source_not_found")
          ELSE IF r.body.json = "invalid"
          THEN JsonErrorExit(EXIT_USER_ERROR, "source_not_found")
          ELSE IF r.body.json # "dict" THEN Unexpected
          ELSE LET sources == Get(r.body.fields, "content", JList(<<>>))
               IN IF sources.json # "list" THEN Unexpected
                  ELSE IF \E i \in 1..Len(sources.items) : sources.items[i].json # "dict"
                  THEN Unexpected
                  ELSE Exit(EXIT_USER_ERROR, "source_not_found")
    /\ UNCHANGED <<envVars, countVars, interrupted, dataVars, retryVars, serverUploads, pollObs, shown>>

\* ------------------------------------------------------------------------
\* Step 4: check_concurrent_uploads (lines 301-364)
\* ------------------------------------------------------------------------
\* entries of an upload list: a mapping with a status, a mapping without
\* one, an entry that is no mapping
UploadItems == {JDict([status |-> s]) : s \in Statuses} \cup {JDict([id |-> "U0"]), JString}
UploadLists == SeqsUpTo(UploadItems, MaxUploads)

UploadsResponses ==
    {Transport(FALSE), Http(401, Invalid), Http(500, Invalid)}
    \cup {Http(200, b) : b \in {Invalid, JNull, JNumber, JString,
                               JDict([total |-> 0]),
                               JDict([content |-> JNull]),
                               JDict([content |-> JNumber]),
                               JDict([content |-> JString])}}
    \cup {Http(200, JList(l)) : l \in UploadLists}
    \cup {Http(200, JDict([content |-> JList(l)])) : l \in UploadLists}

\* line 336
in_progress_statuses == {"created", "analysisInProgress", "analysisCompleted",
                         "importRequested", "importInProgress"}

\* lines 329-333: the sequence the loop runs over; "error" is the
\* "expected list or dict" exit
unwrap_uploads(body) ==
    IF body.json = "dict" THEN Get(body.fields, "content", JList(<<>>))
    ELSE IF body.json # "list" THEN [json |-> "error"]
    ELSE body

\* "for u in uploads": a list yields its items, a str its characters (which
\* are no mappings); None and numbers are not iterable
Iterable(v) == v.json \in {"list", "string", "dict"}
ItemsOf(v) == IF v.json = "list" THEN v.items
              ELSE IF v.json = "string" THEN <<JString>>
              ELSE <<>>

\* lines 337-349: the loop that collects the in-progress uploads
RECURSIVE in_progress(_)
in_progress(items) ==
    IF items = <<>> THEN <<>>
    ELSE LET u == Head(items)
             rest == in_progress(Tail(items))
         IN IF u.json # "dict" THEN rest
            ELSE IF Get(u.fields, "status", None) \in in_progress_statuses
            THEN <<u>> \o rest
            ELSE rest

\* mutant of limit_reached: ">" for ">="
limit_reached_strict(in_progress_count) == in_progress_count > MAX_CONCURRENT_UPLOADS

\* line 351
limit_reached(in_progress_count) == in_progress_count >= MAX_CONCURRENT_UPLOADS

check_concurrent_uploads ==
    /\ pc = "check_concurrent_uploads"
    /\ \E r \in UploadsResponses :
       /\ req' = Req("list_uploads", access_token, None) /\ answer' = r
       /\ IF r.kind = "transport"
          THEN Exit(EXIT_SYSTEM_ERROR, "uploads_network") /\ uploads' = uploads
          ELSE IF r.status # 200
          THEN Exit(EXIT_SYSTEM_ERROR, "uploads_status") /\ uploads' = uploads
          ELSE IF r.body.json = "invalid"
          THEN JsonErrorExit(EXIT_SYSTEM_ERROR, "uploads_network") /\ uploads' = r.body
          ELSE /\ uploads' = r.body
               /\ LET seq == unwrap_uploads(r.body)
                  IN IF seq.json = "error" THEN Exit(EXIT_SYSTEM_ERROR, "uploads_format")
                     ELSE IF ~Iterable(seq) THEN Unexpected
                     ELSE IF limit_reached(Len(in_progress(ItemsOf(seq))))
                     THEN Exit(EXIT_USER_ERROR, "limit_reached")
                     ELSE Return("create_upload")
    /\ UNCHANGED <<envVars, countVars, interrupted, retryVars, serverUploads, pollObs, shown>>
    /\ UNCHANGED <<access_token, file_size, upload_id, presigned_url,
                   last_status, analysis_data, final_data, summary>>

\* ------------------------------------------------------------------------
\* retry_on_network_error (lines 93-109)
\* ------------------------------------------------------------------------
\* The wrapper's loop starts afresh with each wrapped call: at "enter" the
\* loop variables still hold what the previous wrapped call left.
Attempt == IF at = "enter" THEN 1 ELSE attempt
Failures == IF at = "enter" THEN 0 ELSE failures
RetrySleeps == IF at = "enter" THEN 0 ELSE retrySleeps
RetrySlept == IF at = "enter" THEN 0 ELSE retrySlept
Caught == IF at = "enter" THEN {} ELSE caught

\* mutant of ShouldRetry: the wrapper retries without limit
ShouldRetry_always(a) == a >= 1

\* mutant of ShouldRetry: "<=" for "<"
ShouldRetry_inclusive(a) == a <= RETRY_ATTEMPTS

\* line 102
ShouldRetry(a) == a < RETRY_ATTEMPTS

\* the wrapped function returned or left by sys.exit: the loop is left as it is
retry_pass ==
    /\ attempt' = Attempt /\ failures' = Failures
    /\ retrySleeps' = RetrySleeps /\ retrySlept' = RetrySlept /\ caught' = Caught

\* lines 100-108: the wrapped function raised a RequestException of `kind`;
\* after the last attempt "raise last_exception" reaches main's handler
retry_catch(kind) ==
    /\ attempt' = Attempt /\ failures' = Failures + 1
    /\ retrySleeps' = RetrySleeps /\ retrySlept' = RetrySlept
    /\ caught' = Caught \cup {kind}
    /\ IF ShouldRetry(Attempt) THEN Stay("retry_sleep")
       ELSE Exit(EXIT_SYSTEM_ERROR, "network")

\* mutant of fatal_response: the bad answer is raised as a RequestException
\* (as response.raise_for_status() would), which the wrapper catches
fatal_response_raised(reason) == retry_catch("http")

\* lines 402-404, 408-415, 468-471, 528-530, 558-565: a wrapped function
\* answers a bad response with sys.exit(EXIT_SYSTEM_ERROR); SystemExit is no
\* RequestException, the wrapper lets it pass
fatal_response(reason) == retry_pass /\ Exit(EXIT_SYSTEM_ERROR, reason)

\* response.json() raised inside a wrapped function
retry_json_error ==
    IF json_error_is_request_exception THEN retry_catch("json")
    ELSE retry_pass /\ Unexpected

\* line 105 and the next iteration: the wrapped function is called again
\* from its first line (poll_status resets last_status, line 496)
retry_sleep_for(delay) ==
    /\ pc \in Wrapped /\ at = "retry_sleep"
    /\ Stay("call")
    /\ attempt' = attempt + 1
    /\ retrySleeps' = retrySleeps + 1
    /\ retrySlept' = retrySlept + delay
    /\ last_status' = IF pc \in PollSteps THEN None ELSE last_status
    /\ req' = NoReq /\ answer' = NoAnswer
    /\ UNCHANGED <<envVars, countVars, interrupted, failures, caught, serverUploads, pollObs, shown>>
    /\ UNCHANGED <<access_token, file_size, uploads, upload_id, presigned_url,
                   analysis_data, final_data, summary>>

\* mutant of retry_sleep: the poll interval used as the retry delay
retry_sleep_poll_interval == retry_sleep_for(POLL_INTERVAL_SECONDS)

retry_sleep == retry_sleep_for(RETRY_DELAY_SECONDS)

\* ------------------------------------------------------------------------
\* Step 5: create_upload (lines 370-415)
\* ------------------------------------------------------------------------
\* the answers to the POST that would create this invocation's n-th record
CreateResponses(n) ==
    {Transport(FALSE), Transport(TRUE), Http(400, Invalid), Http(500, Invalid)}
    \cup {Http(st, b) : st \in {200, 201},
                        b \in {JDict([id |-> UploadIdOf(n), url |-> UrlOf(n)]),
                               JDict([id |-> UploadIdOf(n)]),
                               JDict([url |-> UrlOf(n)]),
                               JDict([id |-> "", url |-> UrlOf(n)]),
                               Invalid, JList(<<>>)}}

\* the server created a record: it answered 200/201, or it processed the
\* POST before the connection failed
ServerCreated(r) == IF r.kind = "transport" THEN r.processed ELSE r.status \in {200, 201}

create_upload ==
    /\ pc = "create_upload" /\ at \in {"enter", "call"}
    /\ \E r \in CreateResponses(serverUploads + 1) :
       /\ req' = Req("create_upload", access_token, None) /\ answer' = r
       /\ bare_except(r.kind = "http" /\ r.status \notin {200, 201})
       /\ serverUploads' = IF ServerCreated(r) THEN serverUploads + 1 ELSE serverUploads
       /\ IF r.kind = "transport"
          THEN retry_catch("transport") /\ UNCHANGED <<upload_id, presigned_url>>
          ELSE IF r.status \notin {200, 201}
          THEN fatal_response("create_status")
               /\ UNCHANGED <<upload_id, presigned_url>>
          ELSE IF r.body.json = "invalid"
          THEN retry_json_error /\ UNCHANGED <<upload_id, presigned_url>>
          ELSE IF r.body.json # "dict"
          THEN retry_pass /\ Unexpected /\ UNCHANGED <<upload_id, presigned_url>>
          ELSE LET id == Get(r.body.fields, "id", None)
                   url == Get(r.body.fields, "url", None)
               IN IF ~Truthy(id) \/ ~Truthy(url)
                  THEN fatal_response("create_fields")
                       /\ UNCHANGED <<upload_id, presigned_url>>
                  ELSE retry_pass /\ Return("upload_to_s3")
                       /\ upload_id' = id /\ presigned_url' = url
    /\ uploads' = NoData
    /\ UNCHANGED <<envVars, countVars, pollObs, shown>>
    /\ UNCHANGED <<access_token, file_size, last_status, analysis_data, final_data, summary>>

\* ------------------------------------------------------------------------
\* Step 6: upload_to_s3 (lines 439-471)
\* ------------------------------------------------------------------------
\* open(file_path, 'rb') may raise OSError (the file went away after
\* validate_file): no request is made and main's handler exits
S3Responses == {[kind |-> "oserror"], Transport(FALSE), Transport(TRUE),
                Http(200, Invalid), Http(403, Invalid), Http(500, Invalid)}

\* mutant of upload_to_s3: the file opened by the first attempt is reused
upload_to_s3_reusing_file ==
    /\ pc = "upload_to_s3" /\ at \in {"enter", "call"}
    /\ \E r \in S3Responses :
       IF r.kind = "oserror"
       THEN /\ req' = NoReq /\ answer' = NoAnswer /\ retry_pass /\ Unexpected
            /\ UNCHANGED <<file_opens, storage_puts>>
       ELSE /\ req' = Req("storage_put", None, presigned_url) /\ answer' = r
            /\ file_opens' = (IF file_opens = 0 THEN 1 ELSE file_opens)
            /\ storage_puts' = storage_puts + 1
            /\ IF r.kind = "transport" THEN retry_catch("transport")
               ELSE IF r.status = 200 THEN retry_pass /\ Return("poll_analysis")
               ELSE fatal_response("s3_status")
    /\ UNCHANGED <<envVars, token_requests, interrupted, dataVars, serverUploads, pollObs, shown>>

upload_to_s3 ==
    /\ pc = "upload_to_s3" /\ at \in {"enter", "call"}
    /\ \E r \in S3Responses :
       IF r.kind = "oserror"
       THEN /\ req' = NoReq /\ answer' = NoAnswer /\ retry_pass /\ Unexpected
            /\ UNCHANGED <<file_opens, storage_puts>>
       ELSE /\ req' = Req("storage_put", None, presigned_url) /\ answer' = r
            /\ file_opens' = file_opens + 1 /\ storage_puts' = storage_puts + 1
            /\ IF r.kind = "transport" THEN retry_catch("transport")
               ELSE IF r.status = 200 THEN retry_pass /\ Return("poll_analysis")
               ELSE fatal_response("s3_status")
    /\ UNCHANGED <<envVars, token_requests, interrupted, dataVars, serverUploads, pollObs, shown>>

\* ------------------------------------------------------------------------
\* Step 8: request_import (lines 532-565)
\* ------------------------------------------------------------------------
ImportResponses == {Transport(FALSE), Transport(TRUE)}
                   \cup {Http(st, Invalid) : st \in {200, 201, 202, 204, 400, 500}}

\* mutant of import_accepted: every 2xx status the API uses counts as success
import_accepted_with_201(status) == status \in {200, 201, 202, 204}

\* line 556
import_accepted(status) == status \in {200, 202, 204}

request_import ==
    /\ pc = "request_import" /\ at \in {"enter", "call"}
    /\ \E r \in ImportResponses :
       /\ req' = Req("request_import", access_token, upload_id) /\ answer' = r
       /\ bare_except(r.kind = "http" /\ ~import_accepted(r.status))
       /\ IF r.kind = "transport" THEN retry_catch("transport")
          ELSE IF import_accepted(r.status) THEN retry_pass /\ Return("poll_import")
          ELSE fatal_response("import_status")
    /\ UNCHANGED <<envVars, countVars, dataVars, serverUploads, pollObs, shown>>

\* ------------------------------------------------------------------------
\* Steps 7 and 9: poll_status (lines 473-530)
\* ------------------------------------------------------------------------
\* status payloads of GET /sources/{id}/uploads/{uploadId}
Payloads ==
    {[status |-> s] : s \in Statuses}
    \cup {[status |-> s, totalRecords |-> 100, importedRecords |-> i] :
            s \in {"analysisCompleted", "importInProgress", "importCompleted"},
            i \in {40, 100}}
    \cup {[status |-> "failed", errorMessage |-> "bad header"],
          [fileName |-> "data.csv"]}

PollResponses ==
    {Transport(FALSE), Http(404, Invalid), Http(500, Invalid),
     Http(200, Invalid), Http(200, JList(<<>>))}
    \cup {Http(200, JDict(p)) : p \in Payloads}

\* the observers of a wait start afresh with each poll_status call of main
Polls == IF at = "enter" THEN 0 ELSE polls
ConsecFail == IF at = "enter" THEN 0 ELSE consecFail
LastResp == IF at = "enter" THEN NoData ELSE lastResp
TargetSeen == IF at = "enter" THEN 0 ELSE targetSeen
FailedSeen == IF at = "enter" THEN 0 ELSE failedSeen
PollSlept == IF at = "enter" THEN 0 ELSE pollSlept
\* line 496
LastStatus == IF at = "enter" THEN None ELSE last_status

\* mutant of poll_decision: the check for 'failed' is missing
poll_decision_no_failure_check(current_status, target) ==
    IF current_status = target THEN "return" ELSE "sleep"

\* mutant of poll_decision: the wait gives up after its second poll
poll_decision_gives_up(current_status, target) ==
    IF current_status = "failed" THEN "exit"
    ELSE IF current_status = target THEN "return"
    ELSE IF Polls >= 1 THEN "exit"
    ELSE "sleep"

\* lines 514-527: what poll_status does with a 200 payload
poll_decision(current_status, target) ==
    IF current_status = "failed" THEN "exit"
    ELSE IF current_status = target THEN "return"
    ELSE "sleep"

\* one pass of the "while True" loop of poll_status called with the target of
\* `step`; on the target status main stores the payload and goes to `next`
poll_status(step, next) ==
    /\ pc = step /\ at \in {"enter", "call"}
    /\ \E r \in PollResponses :
       /\ req' = Req("get_status", access_token, upload_id) /\ answer' = r
       /\ IF r.kind = "transport"
          THEN /\ retry_catch("transport")
               /\ consecFail' = ConsecFail + 1
               /\ polls' = Polls /\ lastResp' = LastResp /\ pollSlept' = PollSlept
               /\ status_logged' = FALSE /\ last_status' = LastStatus
               /\ targetSeen' = TargetSeen /\ failedSeen' = FailedSeen
               /\ UNCHANGED <<analysis_data, final_data, shown>>
          ELSE IF r.status # 200
          THEN /\ fatal_response("poll_status")
               /\ consecFail' = ConsecFail
               /\ polls' = Polls /\ lastResp' = LastResp /\ pollSlept' = PollSlept
               /\ status_logged' = FALSE /\ last_status' = LastStatus
               /\ targetSeen' = TargetSeen /\ failedSeen' = FailedSeen
               /\ UNCHANGED <<analysis_data, final_data, shown>>
          ELSE IF r.body.json = "invalid"
          THEN /\ retry_json_error
               /\ consecFail' = ConsecFail + 1
               /\ polls' = Polls /\ lastResp' = LastResp /\ pollSlept' = PollSlept
               /\ status_logged' = FALSE /\ last_status' = LastStatus
               /\ targetSeen' = TargetSeen /\ failedSeen' = FailedSeen
               /\ UNCHANGED <<analysis_data, final_data, shown>>
          ELSE IF r.body.json # "dict"
          THEN /\ retry_pass /\ Unexpected
               /\ consecFail' = ConsecFail
               /\ polls' = Polls /\ lastResp' = LastResp /\ pollSlept' = PollSlept
               /\ status_logged' = FALSE /\ last_status' = LastStatus
               /\ targetSeen' = TargetSeen /\ failedSeen' = FailedSeen
               /\ UNCHANGED <<analysis_data, final_data, shown>>
          ELSE LET data == r.body
                   current_status == Get(data.fields, "status", None)
                   decision == poll_decision(current_status, target_status(step))
               IN /\ retry_pass
                  \* lines 510-512
                  /\ status_logged' = (current_status # LastStatus)
                  /\ last_status' = current_status
                  /\ polls' = Polls + 1 /\ consecFail' = 0 /\ lastResp' = data /\ pollSlept' = PollSlept
                  /\ targetSeen' = TargetSeen
                        + (IF current_status = target_status(step) THEN 1 ELSE 0)
                  /\ failedSeen' = FailedSeen + (IF current_status = "failed" THEN 1 ELSE 0)
                  /\ IF decision = "exit"
                     THEN /\ shown' = Get(data.fields, "errorMessage", "Unknown error")
                          /\ Exit(EXIT_SYSTEM_ERROR, "failed")
                          /\ UNCHANGED <<analysis_data, final_data>>
                     ELSE IF decision = "return"
                     THEN /\ Return(next)
                          /\ analysis_data' = IF step = "poll_analysis" THEN data ELSE analysis_data
                          /\ final_data' = IF step = "poll_import" THEN data ELSE final_data
                          /\ shown' = shown
                     ELSE /\ Polls < MaxPolls
                          /\ Stay("poll_sleep")
                          /\ UNCHANGED <<analysis_data, final_data, shown>>
    /\ UNCHANGED <<envVars, countVars, interrupted, serverUploads>>
    /\ UNCHANGED <<access_token, file_size, uploads, upload_id, presigned_url, summary>>

poll_analysis == poll_status("poll_analysis", "request_import")
poll_import == poll_status("poll_import", "summary")

\* line 527: time.sleep(POLL_INTERVAL_SECONDS), then the next pass of the loop
poll_sleep ==
    /\ pc \in PollSteps /\ at = "poll_sleep"
    /\ Stay("call")
    /\ req' = NoReq /\ answer' = NoAnswer
    /\ pollSlept' = pollSlept + POLL_INTERVAL_SECONDS
    /\ UNCHANGED <<envVars, countVars, interrupted, dataVars, retryVars, serverUploads, shown>>
    /\ UNCHANGED <<polls, consecFail, lastResp, targetSeen, failedSeen, status_logged>>

\* ------------------------------------------------------------------------
\* main: the summary and the exits (lines 638-661)
\* ------------------------------------------------------------------------
\* mutant of summary_of: the counts are read from the analysis payload
summary_of_analysis(data) ==
    [printed |-> TRUE,
     total_records |-> Get(analysis_data.fields, "totalRecords", 0),
     imported_records |-> Get(analysis_data.fields, "importedRecords", 0)]

\* lines 639-640
summary_of(data) ==
    [printed |-> TRUE,
     total_records |-> Get(data.fields, "totalRecords", 0),
     imported_records |-> Get(data.fields, "importedRecords", 0)]

main_summary ==
    /\ pc = "summary"
    /\ summary' = summary_of(final_data)
    /\ Exit(EXIT_SUCCESS, "success")
    /\ req' = NoReq /\ answer' = NoAnswer
    /\ UNCHANGED <<envVars, countVars, interrupted, retryVars, serverUploads, pollObs, shown>>
    /\ UNCHANGED <<access_token, file_size, uploads, upload_id, presigned_url,
                   last_status, analysis_data, final_data>>

\* lines 654-656: an interrupt, at any point of the try block
KeyboardInterrupt ==
    /\ pc # "exited"
    /\ Exit(EXIT_SYSTEM_ERROR, "interrupt")
    /\ req' = NoReq /\ answer' = NoAnswer
    /\ interrupted' = TRUE
    /\ UNCHANGED <<envVars, countVars, dataVars, retryVars, serverUploads, pollObs, shown>>

Next ==
    \/ get_access_token
    \/ validate_file
    \/ validate_source
    \/ list_sources
    \/ check_concurrent_uploads
    \/ create_upload
    \/ upload_to_s3
    \/ poll_analysis
    \/ request_import
    \/ poll_import
    \/ retry_sleep
    \/ poll_sleep
    \/ main_summary
    \/ KeyboardInterrupt

Spec == Init /\ [][Next]_vars

\* The process is sequential and nothing in it waits without bound: every
\* request carries a timeout (lines 152, 246, 269, 322, 394, 463, 502, 553), so it
\* ends with an answer or a RequestException, and every sleep ends. A run
\* that has not exited therefore takes its next step. An interrupt is up to
\* the environment and need not come. That the server reports the target or
\* 'failed' in the end is the bound MaxPolls on the other payloads of a wait.
Proceed ==
    \/ get_access_token
    \/ validate_file
    \/ validate_source
    \/ list_sources
    \/ check_concurrent_uploads
    \/ create_upload
    \/ upload_to_s3
    \/ poll_analysis
    \/ request_import
    \/ poll_import
    \/ retry_sleep
    \/ poll_sleep
    \/ main_summary

\* Files that pass validate_file are treated alike from there on: of those,
\* the runs checked for termination keep the largest one
InitLive ==
    /\ Init
    /\ (file.exists /\ file.is_file /\ file.readable) =>
          ~SizeGreater(MAX_FILE_SIZE_BYTES, file.size)

SpecLive == InitLive /\ [][Next]_vars /\ WF_vars(Proceed)

\* ========================================================================
\* Two invocations against one source (main, lines 620-624)
\* ========================================================================
\* Each invocation runs check_concurrent_uploads and then create_upload
\* against the source's upload list, which the server holds; the server
\* answers the list as it is and appends a 'created' record for each POST.
MainAtRest ==
    /\ InitMain
    /\ HARPIN_CLIENT_ID = "secret" /\ HARPIN_REFRESH_TOKEN = "secret"
    /\ file = [exists |-> TRUE, is_file |-> TRUE, readable |-> TRUE, size |-> Size(0, 0)]
    /\ json_error_is_request_exception

mainVars == <<HARPIN_CLIENT_ID, HARPIN_REFRESH_TOKEN, file, json_error_is_request_exception,
              ctlVars, dataVars, retryVars, obsVars, interrupted, countVars>>

ExistingUploads ==
    SeqsUpTo({JDict([status |-> "created"]), JDict([status |-> "importCompleted"])},
             MaxExisting)

InitRace ==
    /\ MainAtRest /\ FormatAtRest
    /\ srv_uploads \in ExistingUploads
    /\ inv = [i \in Invocations |-> InvStart]

\* check_concurrent_uploads (lines 301-364) of invocation i: one GET of the
\* list; the request may also fail, which ends the invocation
inv_check_concurrent_uploads(i) ==
    /\ inv[i].pc = "check"
    /\ \E answered \in BOOLEAN :
       LET in_progress_count == Len(in_progress(srv_uploads))
       IN inv' = [inv EXCEPT ![i] =
                    [pc |-> IF ~answered THEN "failed"
                            ELSE IF limit_reached(in_progress_count) THEN "refused"
                            ELSE "create",
                     seen |-> IF answered THEN in_progress_count ELSE @.seen,
                     checks |-> @.checks + 1]]
    /\ UNCHANGED <<srv_uploads, mainVars, fmtVars>>

\* mutant of inv_create_upload: the record is created only while the
\* source is below the ceiling (a gate enforced with the creation)
inv_create_upload_enforced(i) ==
    /\ inv[i].pc = "create"
    /\ ~limit_reached(Len(in_progress(srv_uploads)))
    /\ srv_uploads' = Append(srv_uploads, JDict([status |-> "created"]))
    /\ inv' = [inv EXCEPT ![i].pc = "created"]
    /\ UNCHANGED <<mainVars, fmtVars>>

\* create_upload (lines 370-415) of invocation i: the POST creates a record
\* whatever the list holds by now
inv_create_upload(i) ==
    /\ inv[i].pc = "create"
    /\ srv_uploads' = Append(srv_uploads, JDict([status |-> "created"]))
    /\ inv' = [inv EXCEPT ![i].pc = "created"]
    /\ UNCHANGED <<mainVars, fmtVars>>

\* the server brings an in-progress upload to its end
server_completes(k) ==
    /\ k \in 1..Len(srv_uploads)
    /\ srv_uploads[k].fields.status \in in_progress_statuses
    /\ srv_uploads' = [srv_uploads EXCEPT ![k] = JDict([status |-> "importCompleted"])]
    /\ UNCHANGED <<inv, mainVars, fmtVars>>

NextRace ==
    \/ \E i \in Invocations : inv_check_concurrent_uploads(i)
    \/ \E i \in Invocations : inv_create_upload(i)
    \/ \E k \in 1..(MaxExisting + 2) : server_completes(k)

SpecRace == InitRace /\ [][NextRace]_vars

\* ========================================================================
\* format_file_size (lines 85-91)
\* ========================================================================
\* A byte count is held in base 1024, most significant digit first and
\* without leading zeros (<<>> is 0): 1024^4 does not fit TLC's 32-bit
\* integers. A quotient has an integer part and the digits after the point.
\* Dividing a float by 1024.0 is exact, and an int is converted exactly up
\* to 2^53; above that the conversion rounds, far beyond the last threshold.
Digits == {0, 1, 1023}
ByteCounts ==
    {<<>>} \cup {d \in UNION {[1..n -> Digits] : n \in 1..MaxDigits} : d[1] # 0}

Float(size_bytes) == [int |-> size_bytes, frac |-> <<>>]
\* x < 1024.0
BelowKilo(x) == Len(x.int) <= 1
\* x / 1024.0
DivideByKilo(x) ==
    IF x.int = <<>> THEN [int |-> <<>>, frac |-> <<0>> \o x.frac]
    ELSE [int |-> SubSeq(x.int, 1, Len(x.int) - 1),
          frac |-> <<x.int[Len(x.int)]>> \o x.frac]

\* the "for unit in [...]" loop and the return after it; the text returned
\* is the number (printed with two decimals) and the unit
RECURSIVE format_loop(_, _)
format_loop(x, units) ==
    IF units = <<>> THEN [number |-> x, unit |-> "TB"]
    ELSE IF BelowKilo(x) THEN [number |-> x, unit |-> Head(units)]
    ELSE format_loop(DivideByKilo(x), Tail(units))

\* mutant of format_file_size: 'GB' is missing from the list of units
format_file_size_without_GB(size_bytes) ==
    format_loop(Float(size_bytes), <<"B", "KB", "MB">>)

format_file_size(size_bytes) ==
    format_loop(Float(size_bytes), <<"B", "KB", "MB", "GB">>)

\* a < b, for byte counts
RECURSIVE DigitsLess(_, _)
DigitsLess(a, b) ==
    IF Len(a) # Len(b) THEN Len(a) < Len(b)
    ELSE IF a = <<>> THEN FALSE
    ELSE IF Head(a) # Head(b) THEN Head(a) < Head(b)
    ELSE DigitsLess(Tail(a), Tail(b))

InitFormat ==
    /\ MainAtRest /\ RaceAtRest
    /\ fs_size \in ByteCounts
    /\ fs_result = NotCalled

\* a call of format_file_size: the first with the size chosen at the start,
\* each later one with a larger size
format_file_size_call ==
    /\ \E s \in ByteCounts :
       /\ IF fs_result = NotCalled THEN s = fs_size ELSE DigitsLess(fs_size, s)
       /\ fs_size' = s
       /\ fs_result' = format_file_size(s)
    /\ UNCHANGED <<mainVars, raceVars>>

NextFormat == format_file_size_call

SpecFormat == InitFormat /\ [][NextFormat]_vars

\* ========================================================================
\* Properties
\* ========================================================================
Exited == pc = "exited"
Interrupted == exitReason = "interrupt"
InDone(step) == \E i \in 1..Len(done) : done[i] = step
LastDone == IF done = <<>> THEN "" ELSE done[Len(done)]
NineSteps == SubSeq(Steps, 1, 9)

\* the requests each step of main() may issue
RequestsOf(step) ==
    CASE step = "get_access_token" -> {"token"}
      [] step = "validate_source" -> {"fetch_source", "list_sources"}
      [] step = "check_concurrent_uploads" -> {"list_uploads"}
      [] step = "create_upload" -> {"create_upload"}
      [] step = "upload_to_s3" -> {"storage_put"}
      [] step \in PollSteps -> {"get_status"}
      [] step = "request_import" -> {"request_import"}
      [] OTHER -> {}

\* C1: the steps run in one fixed order: the steps that returned are always
\* a prefix of the fixed order; a request is issued only by the step main()
\* is in, after exactly the earlier steps have returned; and no step at all
\* is taken once the process has exited.
C1_StepsInOrder ==
    /\ [](\A i \in 1..Len(done) : i <= Len(Steps) /\ done[i] = Steps[i])
    /\ [][/\ exitCode = RUNNING
          /\ pc # "exited"
          /\ req'.kind # "none" =>
                /\ req'.kind \in RequestsOf(pc)
                /\ done = SubSeq(Steps, 1, StepIndex(pc) - 1)]_vars

\* C1 witness: a run in which all nine steps returned, in order, and one that
\* ended at a failed step is the same check; this one reached the end
C1_Witness == Exited /\ exitCode = EXIT_SUCCESS /\ done = NineSteps /\ req.kind = "none"

\* C2 (as claimed): the server creates at most one upload record per
\* invocation, and once create_upload has returned there is exactly one, whose
\* id and URL the client holds.
C2_OneUploadRecord ==
    /\ serverUploads <= 1
    /\ InDone("create_upload") =>
          serverUploads = 1 /\ upload_id = UploadIdOf(1) /\ presigned_url = UrlOf(1)

\* C3: in a run that is not interrupted, the process exits with code 0 if and
\* only if all nine steps returned in order, the last 200 payload of the
\* second wait having status importCompleted; the summary then shows the
\* record counts of that very payload.
C3_ExitSuccess ==
    (Exited /\ ~Interrupted) =>
        /\ (exitCode = EXIT_SUCCESS) <=> (done = NineSteps)
        /\ exitCode = EXIT_SUCCESS =>
              /\ exitAt = "summary"
              /\ lastResp.json = "dict"
              /\ "status" \in DOMAIN lastResp.fields
              /\ lastResp.fields.status = "importCompleted"
              /\ summary.printed
              /\ "totalRecords" \in DOMAIN lastResp.fields =>
                    summary.total_records = lastResp.fields.totalRecords
              /\ "importedRecords" \in DOMAIN lastResp.fields =>
                    summary.imported_records = lastResp.fields.importedRecords
        /\ exitCode # EXIT_SUCCESS => ~summary.printed

C3_Witness ==
    /\ Exited /\ exitCode = EXIT_SUCCESS
    /\ lastResp = JDict([status |-> "importCompleted", totalRecords |-> 100,
                         importedRecords |-> 100])
    /\ summary = [printed |-> TRUE, total_records |-> 100, imported_records |-> 100]
    /\ analysis_data = JDict([status |-> "analysisCompleted", totalRecords |-> 100,
                              importedRecords |-> 40])

\* the wait whose observers the state holds: the wait under way, or the last
\* one that ended
WaitUnderWay == pc \in PollSteps /\ at # "enter"
AnalysisWaitReturned ==
    \/ pc = "request_import"
    \/ pc = "poll_import" /\ at = "enter"
    \/ Exited /\ exitAt = "request_import"
ImportWaitReturned == pc = "summary" \/ (Exited /\ exitAt = "summary")

\* C4: PollStatus with target T. While a wait is under way neither T nor
\* 'failed' has been answered; a wait that returned saw T exactly once, in its
\* last poll, never 'failed', and returned that poll's payload; a wait that saw
\* 'failed' did not return: the process exited with code 2 and surfaced the
\* payload's errorMessage.
C4_PollStatus ==
    /\ WaitUnderWay => targetSeen = 0 /\ failedSeen = 0
    /\ AnalysisWaitReturned =>
          /\ targetSeen = 1 /\ failedSeen = 0
          /\ analysis_data = lastResp
          /\ lastResp.fields.status = "analysisCompleted"
          /\ last_status = "analysisCompleted"
    /\ ImportWaitReturned =>
          /\ targetSeen = 1 /\ failedSeen = 0
          /\ final_data = lastResp
          /\ lastResp.fields.status = "importCompleted"
    /\ failedSeen > 0 =>
          /\ failedSeen = 1 /\ targetSeen = 0
          /\ Exited /\ exitCode = EXIT_SYSTEM_ERROR /\ exitAt \in PollSteps
          /\ ~InDone(exitAt)
          /\ lastResp.fields.status = "failed"
          /\ "errorMessage" \in DOMAIN lastResp.fields =>
                shown = lastResp.fields.errorMessage

\* C4 witness: 'failed' answered after two other statuses of the analysis
\* wait, with the server's message
C4_Witness ==
    /\ Exited /\ exitAt = "poll_analysis" /\ exitReason = "failed"
    /\ polls = 3 /\ shown = "bad header"

\* the gate's count as the claim words it
InProgressSet == {"created", "analysisInProgress", "analysisCompleted",
                  "importRequested", "importInProgress"}
CountsAsInProgress(u) ==
    u.json = "dict" /\ "status" \in DOMAIN u.fields /\ u.fields.status \in InProgressSet
ClaimedCount(l) == Cardinality({i \in 1..Len(l) : CountsAsInProgress(l[i])})

\* the 200 body of the list-uploads response is an upload list: a bare
\* sequence, or a mapping holding one under "content"
IsUploadList(b) ==
    \/ b.json = "list"
    \/ b.json = "dict" /\ "content" \in DOMAIN b.fields /\ b.fields.content.json = "list"
UploadListOf(b) == IF b.json = "list" THEN b.items ELSE b.fields.content.items

GateDecided ==
    \/ pc = "create_upload" /\ at = "enter"
    \/ Exited /\ exitAt = "check_concurrent_uploads" /\ ~Interrupted
GateRefused ==
    Exited /\ exitAt = "check_concurrent_uploads" /\ exitCode = EXIT_USER_ERROR

\* C5: the gate, given an upload list, refuses (exit code 1, no create-upload
\* request issued) if and only if at least 3 of its entries are mappings with
\* an in-progress status; with 2 or fewer it goes on to create_upload.  The
\* gate exits with code 1 in no other case.
C5_ConcurrencyGate ==
    /\ (GateDecided /\ IsUploadList(uploads)) =>
          /\ GateRefused <=> ClaimedCount(UploadListOf(uploads)) >= 3
          /\ ~GateRefused => pc = "create_upload"
    /\ GateRefused =>
          /\ IsUploadList(uploads)
          /\ req.kind = "list_uploads" /\ serverUploads = 0
          /\ ~InDone("check_concurrent_uploads")

\* C5 witness: exactly 3 in-progress entries refuse
C5_Witness ==
    /\ GateRefused /\ IsUploadList(uploads)
    /\ ClaimedCount(UploadListOf(uploads)) = 3
    /\ uploads = JList(<<JDict([status |-> "importInProgress"]),
                         JDict([status |-> "importInProgress"]),
                         JDict([status |-> "importInProgress"])>>)

\* C6: a wrapped call never makes a 4th attempt, sleeps 10 s exactly once
\* between consecutive attempts, and when its 3rd attempt raises too the
\* process exits with code 2 after 3 attempts and 2 sleeps (20 s).
C6_RetryExhausted ==
    /\ attempt <= 3 /\ retrySleeps <= 2
    /\ (pc \in Wrapped /\ at # "enter") =>
          /\ retrySleeps = attempt - 1
          /\ retrySlept = 10 * retrySleeps
    /\ exitReason = "network" =>
          /\ Exited /\ exitAt \in Wrapped /\ exitCode = 2
          /\ attempt = 3 /\ failures = 3
          /\ retrySleeps = 2 /\ retrySlept = 20

\* C6 witness: three transport errors in create_upload
C6_Witness ==
    /\ Exited /\ exitAt = "create_upload" /\ exitReason = "network"
    /\ caught = {"transport"} /\ failures = 3

\* a wrapped call has just returned to main()
WrappedReturned == pc # "exited" /\ at = "enter" /\ LastDone \in Wrapped

\* C7: a wrapped call that returns after k failed attempts has k in {0,1,2},
\* slept exactly k times 10 s, and main() is at the next step.
C7_RetryThenSuccess ==
    WrappedReturned =>
        /\ failures \in {0, 1, 2}
        /\ attempt = failures + 1
        /\ retrySleeps = failures
        /\ retrySlept = 10 * failures
        /\ pc = Steps[StepIndex(LastDone) + 1]

\* C7 witness: two transport errors, then create_upload succeeds
C7_Witness ==
    /\ WrappedReturned /\ LastDone = "create_upload" /\ pc = "upload_to_s3"
    /\ failures = 2 /\ caught = {"transport"} /\ retrySlept = 20

\* C8 (as claimed): a wait ends by exhausted transport retries only when
\* three attempts in a row failed on the same fetch.
C8_BudgetPerFetch ==
    (Exited /\ exitAt \in PollSteps /\ exitReason = "network" /\ caught = {"transport"})
        => consecFail = 3

\* C9 (as claimed): a fetch-source status that is neither 200 nor 404 exits
\* with code 2.
C9_SourceOtherStatus ==
    (Exited /\ exitReason = "source_status") => exitCode = 2

\* C10 (as claimed): a 200 list-uploads body that is no upload list ends the
\* process with exit code 2 and never reaches create_upload.
C10_UploadsShape ==
    (uploads.json # "none" /\ ~IsUploadList(uploads) /\ ~Interrupted) =>
        Exited /\ exitAt = "check_concurrent_uploads" /\ exitCode = 2

\* ------------------------------------------------------------------------
\* C11
\* ------------------------------------------------------------------------
\* the answer to the last request is one a wrapped operation treats as
\* fatal: a status outside its success statuses, or a create-upload body
\* without a usable id or url
FatalAnswer ==
    /\ answer.kind = "http"
    /\ \/ /\ req.kind = "create_upload"
          /\ \/ answer.status \notin {200, 201}
             \/ /\ answer.body.json = "dict"
                /\ \/ ~Truthy(Get(answer.body.fields, "id", None))
                   \/ ~Truthy(Get(answer.body.fields, "url", None))
       \/ req.kind = "storage_put" /\ answer.status # 200
       \/ req.kind = "get_status" /\ answer.status # 200
       \/ req.kind = "request_import" /\ answer.status \notin {200, 202, 204}

C12_ImportRequestedOnce ==
    /\ [](req.kind = "request_import" =>
            /\ InDone("poll_analysis")
            /\ analysis_data.json = "dict"
            /\ Get(analysis_data.fields, "status", None) = "analysisCompleted")
    /\ [][req'.kind = "request_import" => pc = "request_import"]_vars
    /\ [][(pc = "poll_import" /\ at = "enter" /\ req'.kind = "get_status") =>
                /\ req.kind = "request_import"
                /\ answer.kind = "http" /\ answer.status \in {200, 202, 204}
                /\ LastDone = "request_import"]_vars
    /\ [](req.target # None /\ req.target = upload_id =>
            req.kind \in {"get_status", "request_import"})

\* C12 witness: the second wait is under way after an import request that was
\* answered 202
C12_Witness ==
    /\ pc = "poll_import" /\ at = "poll_sleep" /\ req.kind = "get_status"
    /\ InDone("request_import") /\ polls = 1

\* ------------------------------------------------------------------------
\* C13
\* ------------------------------------------------------------------------
Blank(v) == v \in {"<unset>", "", "  "}
MissingCredential == Blank(HARPIN_CLIENT_ID) \/ Blank(HARPIN_REFRESH_TOKEN)

\* C13: with a credential variable unset, empty or whitespace-only no request
\* is ever issued and no step returns, and the process (unless interrupted
\* before its first step) exits from get_access_token with code 1.
C13_MissingCredential ==
    MissingCredential =>
        /\ req.kind = "none" /\ answer.kind = "none"
        /\ done = <<>> /\ access_token = None
        /\ pc \in {"get_access_token", "exited"}
        /\ Exited /\ ~Interrupted =>
              /\ exitCode = EXIT_USER_ERROR
              /\ exitAt = "get_access_token" /\ exitReason = "missing_env"

\* C13 witness: a whitespace-only client id beside a proper refresh token
C13_Witness ==
    /\ HARPIN_CLIENT_ID = "  " /\ HARPIN_REFRESH_TOKEN = "secret"
    /\ Exited /\ exitCode = EXIT_USER_ERROR /\ exitReason = "missing_env"
    /\ req.kind = "none"

\* ------------------------------------------------------------------------
\* C14
\* ------------------------------------------------------------------------
RegularReadable == file.exists /\ file.is_file /\ file.readable
\* more than 5 * 1024^3 bytes
Oversized == file.size.gib > 5 \/ (file.size.gib = 5 /\ file.size.rem > 0)
\* the token endpoint answered 200 with a body that is no JSON object
TokenBodyUnusable ==
    /\ req.kind = "token" /\ answer.kind = "http" /\ answer.status = 200
    /\ answer.body.json # "dict"

\* C14: for a readable regular file, validate_file refuses it exactly when
\* it is larger than 5 GiB (a file of 5 GiB passes). With a larger file no
\* request beyond the token exchange is ever issued, validate_file never
\* returns, and the process exits with code 1 at get_access_token or at
\* validate_file (runs that are interrupted, or whose token answer is a 200
\* without a JSON object, end before the file is looked at).
C14_OversizedFile ==
    /\ RegularReadable /\ exitAt = "validate_file" /\ ~Interrupted => Oversized
    /\ RegularReadable /\ Oversized =>
        /\ ~InDone("validate_file")
        /\ req.kind \in {"none", "token"}
        /\ Exited /\ exitAt = "validate_file" /\ ~Interrupted =>
              exitCode = EXIT_USER_ERROR /\ exitReason = "too_large"
        /\ Exited /\ ~Interrupted /\ ~TokenBodyUnusable =>
              exitCode = EXIT_USER_ERROR

\* C14 witness: one byte more than 5 GiB, refused after a successful
\* authentication
C14_Witness ==
    /\ RegularReadable /\ file.size = Size(5, 1)
    /\ Exited /\ exitAt = "validate_file" /\ exitCode = EXIT_USER_ERROR
    /\ done = <<"get_access_token">> /\ access_token = "tokA"

\* ------------------------------------------------------------------------
\* C15
\* ------------------------------------------------------------------------
\* C15: the sources are listed only right after fetch-source answered 404,
\* and once the listing has been requested the process has exited with
\* code 1, whatever the listing's outcome, without validate_source having
\* returned.
C15_ListingThenUserError ==
    /\ [][req'.kind = "list_sources" =>
            /\ req.kind = "fetch_source"
            /\ answer.kind = "http" /\ answer.status = 404]_vars
    /\ [](req.kind = "list_sources" =>
            /\ Exited /\ exitCode = EXIT_USER_ERROR
            /\ ~InDone("validate_source"))

\* ------------------------------------------------------------------------
\* C16
\* ------------------------------------------------------------------------
\* C16: once an interrupt has been raised the process has exited with code 2,
\* and no step (so no retry, no request, no rollback) follows an exit.
C16_InterruptExitsTwo ==
    /\ [](interrupted => Exited /\ exitCode = EXIT_SYSTEM_ERROR)
    /\ [][pc # "exited" /\ ~interrupted]_vars

\* ------------------------------------------------------------------------
\* C17
\* ------------------------------------------------------------------------
\* C17: each invocation queries the upload list exactly once, before its
\* create-upload, and creates its record only after that one query saw fewer
\* than 3 uploads in progress; once it has passed the gate its create-upload
\* goes ahead whatever the list holds by then (no second look).
C17_AdvisoryGate ==
    \A i \in Invocations :
        /\ inv[i].checks = IF inv[i].pc = "check" THEN 0 ELSE 1
        /\ inv[i].pc \in {"create", "created"} => inv[i].seen < MAX_CONCURRENT_UPLOADS
        /\ inv[i].pc = "create" => ENABLED inv_create_upload(i)

\* C17 witness: both invocations read a count of 2, both created their
\* upload, and the source now has 4 uploads in progress
C17_Witness ==
    /\ \A i \in Invocations : inv[i].pc = "created" /\ inv[i].seen = 2
    /\ Len(in_progress(srv_uploads)) = 4
    /\ Len(in_progress(srv_uploads)) > MAX_CONCURRENT_UPLOADS

\* ------------------------------------------------------------------------
\* C18
\* ------------------------------------------------------------------------
\* the requests that carry the bearer token
Authorized == {"fetch_source", "list_sources", "list_uploads", "create_upload",
               "get_status", "request_import"}

\* C18: a run issues at most one token request; a transport error on it ends
\* the process at once with code 1; every request that carries a bearer
\* token carries the token that request obtained, and the token never
\* changes once get_access_token has returned.
C18_OneTokenRequest ==
    /\ [](token_requests <= 1)
    /\ [](req.kind = "token" /\ answer.kind = "transport" =>
            /\ Exited /\ exitCode = EXIT_USER_ERROR
            /\ exitAt = "get_access_token" /\ token_requests = 1)
    /\ [](req.kind \in Authorized =>
            /\ token_requests = 1
            /\ Truthy(access_token) /\ req.token = access_token)
    /\ [][InDone("get_access_token") =>
            /\ access_token' = access_token
            /\ token_requests' = token_requests]_vars

\* C18 witness: the second wait is in its third status fetch, after a retry,
\* with the token of the one token request
C18_Witness ==
    /\ pc = "poll_import" /\ req.kind = "get_status" /\ req.token = "tokA"
    /\ polls = 2 /\ attempt = 2 /\ token_requests = 1

\* ------------------------------------------------------------------------
\* C19
\* ------------------------------------------------------------------------
Units == <<"B", "KB", "MB", "GB", "TB">>
UnitIndex(u) == CHOOSE k \in 0..4 : Units[k + 1] = u
\* 1024^k
KiloPower(k) == <<1>> \o [j \in 1..k |-> 0]
\* the number of times s can be divided by 1024 while staying >= 1
RECURSIVE TimesDivisible(_)
TimesDivisible(s) ==
    IF DigitsLess(s, KiloPower(1)) THEN 0
    ELSE 1 + TimesDivisible(SubSeq(s, 1, Len(s) - 1))
Min(a, b) == IF a < b THEN a ELSE b

\* C19: format_file_size labels a byte count s with the unit of index
\* min(4, times s can be divided by 1024 while staying >= 1): B below 1024,
\* KB below 1024^2, MB below 1024^3, GB below 1024^4, TB from there on; and
\* a larger byte count never gets a unit of lower index.
C19_UnitLabel ==
    /\ [](fs_result # NotCalled =>
            /\ fs_result.unit = Units[Min(4, TimesDivisible(fs_size)) + 1]
            /\ fs_result.unit =
                 IF DigitsLess(fs_size, KiloPower(1)) THEN "B"
                 ELSE IF DigitsLess(fs_size, KiloPower(2)) THEN "KB"
                 ELSE IF DigitsLess(fs_size, KiloPower(3)) THEN "MB"
                 ELSE IF DigitsLess(fs_size, KiloPower(4)) THEN "GB"
                 ELSE "TB")
    /\ [][fs_result # NotCalled /\ DigitsLess(fs_size, fs_size') =>
            UnitIndex(fs_result.unit) <= UnitIndex(fs_result'.unit)]_vars

\* C19 witness: 1024^4 - 1 bytes is the largest size labelled GB
C19_Witness ==
    /\ fs_size = <<1023, 1023, 1023, 1023>>
    /\ fs_result # NotCalled /\ fs_result.unit = "GB"

\* ------------------------------------------------------------------------
\* C20
\* ------------------------------------------------------------------------
\* C20 as stated: a run opens the local file once and issues one storage PUT
\* at most, also when the transfer meets a transport error.
C20_SinglePut == storage_puts <= 1 /\ file_opens <= 1

\* C20 amended: every storage PUT streams the file from an open of its own;
\* the first PUT of a run is the first attempt of upload_to_s3 and every
\* further one follows a transport error of the one before, after the retry
\* delay; a run issues at most 3 storage PUTs, and exactly one when the
\* transfer meets no transport error.
C20_PutPerAttempt ==
    /\ [](storage_puts <= RETRY_ATTEMPTS /\ file_opens = storage_puts)
    /\ [](InDone("upload_to_s3") => storage_puts >= 1)
    /\ [][storage_puts' # storage_puts =>
            /\ pc = "upload_to_s3"
            /\ storage_puts' = storage_puts + 1 /\ req'.kind = "storage_put"
            /\ IF at = "enter" THEN storage_puts = 0
               ELSE /\ at = "call" /\ caught = {"transport"}
                    /\ failures = storage_puts /\ retrySleeps = storage_puts]_vars

\* C20 witness: the transfer succeeded at the third PUT
C20_Witness ==
    /\ InDone("upload_to_s3") /\ storage_puts = 3 /\ file_opens = 3

\* ------------------------------------------------------------------------
\* C21
\* ------------------------------------------------------------------------
\* the step is a status fetch answered 200 with a payload
Polled == pc \in PollSteps /\ req'.kind = "get_status" /\ polls' = Polls + 1
StatusOf(data) == Get(data.fields, "status", None)
\* a wait never ends on a payload whose status is neither the target nor
\* 'failed': the client goes to sleep, sleeps 5 seconds and fetches again
KeepsPolling ==
    /\ [][(Polled /\ StatusOf(lastResp') \notin {target_status(pc), "failed"}) =>
            pc' = pc /\ at' = "poll_sleep" /\ exitCode' = RUNNING]_vars
    /\ [][(pc \in PollSteps /\ at = "poll_sleep" /\ ~interrupted') =>
            /\ pc' = pc /\ at' = "call" /\ req'.kind = "none"
            /\ pollSlept' = pollSlept + 5]_vars
    /\ [][(pc \in PollSteps /\ at = "call" /\ ~interrupted') =>
            req'.kind = "get_status"]_vars
\* the ways a wait ends that the claim lists
ListedEnd ==
    \/ /\ pc' # "exited" /\ Polled
       /\ StatusOf(lastResp') = target_status(pc)
    \/ /\ exitReason' = "failed" /\ Polled
       /\ StatusOf(lastResp') = "failed"
    \/ /\ exitReason' = "poll_status"
       /\ answer'.kind = "http" /\ answer'.status # 200
    \/ /\ exitReason' = "network" /\ failures' = RETRY_ATTEMPTS
    \/ exitReason' = "interrupt"
\* a 200 answer whose body main() cannot use as a mapping
UnusableBody ==
    /\ exitReason' = "exception" /\ exitCode' = EXIT_SYSTEM_ERROR
    /\ answer'.kind = "http" /\ answer'.status = 200
    /\ answer'.body.json # "dict"

\* C21 as stated: a payload that is neither the target nor 'failed' makes
\* the client sleep 5 seconds and poll again, and a wait ends only by the
\* target, by 'failed', by a non-200 answer, by exhausted retries or by an
\* interrupt.
C21_NoTimeout ==
    /\ KeepsPolling
    /\ [][(pc \in PollSteps /\ pc' # pc) => ListedEnd]_vars

\* C21 amended: as stated, with one more way for a wait to end: a 200
\* answer whose body is no JSON object (or, with requests < 2.27, no JSON at
\* all) ends the process with exit code 2.
C21_NoTimeoutAmended ==
    /\ KeepsPolling
    /\ [][(pc \in PollSteps /\ pc' # pc) => ListedEnd \/ UnusableBody]_vars

\* C21 witness: the import wait asleep after its third payload without the
\* target, having slept twice 5 seconds
C21_Witness ==
    /\ pc = "poll_import" /\ at = "poll_sleep"
    /\ polls = 3 /\ pollSlept = 10 /\ exitCode = RUNNING

\* ------------------------------------------------------------------------
\* C22
\* ------------------------------------------------------------------------
\* C22: when the process keeps taking its steps, every request is answered
\* or fails, and each wait gets the target or 'failed' after finitely many
\* other payloads, every run ends with exit code 0, 1 or 2; on the way no
\* wrapped call makes more than 3 attempts or sleeps more than 2 retry
\* delays.
C22_Terminates ==
    /\ <>(Exited /\ exitCode \in {EXIT_SUCCESS, EXIT_USER_ERROR, EXIT_SYSTEM_ERROR})
    /\ [](attempt <= RETRY_ATTEMPTS /\ retrySleeps < RETRY_ATTEMPTS)

\* C22 witness: a run that ended with code 0 after three storage PUTs and an
\* import wait of four payloads
C22_Witness ==
    /\ Exited /\ exitCode = EXIT_SUCCESS
    /\ storage_puts = 3 /\ polls = 4

\* ------------------------------------------------------------------------
\* C23
\* ------------------------------------------------------------------------
\* C23: a status fetch that got a payload logs a status line exactly when it
\* is the first such fetch of the wait or its status differs from the status
\* of the previous payload of the wait, whether or not a transport error and
\* its retry came between the two.
C23_LogOnChange ==
    [][Polled =>
        (status_logged' <=>
            \/ LastResp = NoData
            \/ StatusOf(lastResp') # StatusOf(LastResp))]_vars

====
